---- MODULE Spec2Model ----
(***************************************************************************)
(* Audio worker pool of ehudso7/budi: the job dispatchers of worker-dsp    *)
(* and worker-codec (queue pop, payload parse, per-kind handlers, failure  *)
(* reporting) and the DSP kernels the handlers call.                       *)
(*                                                                         *)
(* Sample values, gains and coefficients are fixed-point integers in       *)
(* units of 1/Unit; every product is divided by Unit rounding towards      *)
(* zero, so that a rounding never raises a magnitude.                      *)
(***************************************************************************)
EXTENDS Integers, Sequences, FiniteSets, TLC

\* ---------------------------------------------------------------- bounds
\* Number of payloads the upstream producer enqueues in one behaviour.
MaxPayloads == 2
\* Largest codec list of a codec-preview payload.
MaxCodecs == 2

\* ------------------------------------------------------- dispatcher state
VARIABLES
    queue,          \* queue name -> list of payload ids, right end = next BRPOP
    wkind,          \* worker -> "dsp" | "codec": which binary the process runs
    pc,             \* worker -> "off" | "pop" | "run" | "failing" | "exited"
    cur,            \* worker -> the job being handled (NoJob before the first)
    ip,             \* worker -> index of the next step of the handler
    log,            \* worker -> the calls made for the latest job, in order
    scratch,        \* worker -> number of live TempDir values of the process
    res,            \* worker -> the MasteringResult of the job, if any
    exitCause,      \* worker -> "none" | "queue" | "panic": why the process ended
    taken,          \* payload id -> number of BRPOP calls that returned it
    runs            \* payload id -> number of handler runs started for it

dispVars == <<queue, wkind, pc, cur, ip, log, scratch, res, exitCause,
              taken, runs>>

\* ---------------------------------------------------------- limiter state
\* One call of apply_limiter, from its entry to its return or panic.
VARIABLES
    lpc,            \* "idle" | "channel" | "loop" | "done" | "panicked"
    lcfg,           \* the call's inputs and build: input, rate, makeup, checks
    buffer,         \* buffer.samples: the channels, changed in place
    ch,             \* 1-based position of `channel` in buffer.samples
    pos,            \* the loop variable i of the sample loop
    lookahead,      \* the lookahead ring of the channel
    gain_reduction  \* the smoothed gain of the channel

limVars == <<lpc, lcfg, buffer, ch, pos, lookahead, gain_reduction>>

\* -------------------------------------------------------- apply_fixes state
\* One call of apply_fixes, from its entry to its return.
VARIABLES
    fpc,            \* "idle" | "loop" | "done"
    fcfg,           \* the call's inputs: the buffer as passed, its rate, modules
    fbuf,           \* buffer.samples, changed in place by the modules
    mi,             \* number of entries of `modules` the loop has been through
    changes,        \* the Vec<FixChange> being built: the module names
    ftrace          \* per module run: its name, the buffer before and after,
                    \* and whether it returned Some(change)

fixVars == <<fpc, fcfg, fbuf, mi, changes, ftrace>>

\* ------------------------------------------------------- pure kernel calls
\* One call of a function that only computes: what is called on what, and
\* what it returned.
VARIABLES
    call,           \* [fn, ...]: the function and its arguments
    ret             \* [done |-> FALSE] until the call has returned

callVars == <<call, ret>>

\* Everything outside the dispatcher.
kernelVars == <<limVars, fixVars, callVars>>

vars == <<dispVars, limVars, fixVars, callVars>>

Workers == {"w1", "w2"}
WorkerKinds == {"dsp", "codec"}
PayloadIds == 1..MaxPayloads

\* DSP_QUEUE / CODEC_QUEUE defaults.
QueueOf(kind) == IF kind = "dsp" THEN "dsp-jobs" ELSE "codec-jobs"
QueueNames == {QueueOf(k) : k \in WorkerKinds}

NoJob == [id |-> 0, kind |-> "none", ncodecs |-> 0]

\* ---------------------------------------------------------------- payloads
\* A payload as the parser sees it: well-formed JSON or not, its "type" tag,
\* whether every required field of that type is present, and the length of
\* "codecs" (codec-preview only).
JobTypes == {"analyze", "fix", "master", "album-master", "export", "codec-preview"}

Payloads ==
    [json : {TRUE}, type : JobTypes \cup {"unknown"}, fields : BOOLEAN, ncodecs : {0}]
    \cup [json : {TRUE}, type : {"codec-preview"}, fields : {TRUE}, ncodecs : 1..MaxCodecs]
    \cup [json : {FALSE}, type : {"unknown"}, fields : {FALSE}, ncodecs : {0}]

\* Variants of the Job enum of each binary.
JobVariants(kind) ==
    IF kind = "dsp"
    THEN {"analyze", "fix", "master", "album-master", "export"}
    ELSE {"codec-preview"}

\* serde_json::from_str::<Job>: Ok iff the text is JSON, the tag names a
\* variant of this binary's enum and the variant's fields are all present.
ParseOk(kind, pl) ==
    /\ pl.json
    /\ pl.type \in JobVariants(kind)
    /\ pl.fields

\* The value of the match on from_str: the Job, or the parse error.
Parse(kind, pl) ==
    IF ParseOk(kind, pl)
    THEN [ok |-> TRUE, kind |-> pl.type, ncodecs |-> pl.ncodecs]
    ELSE [ok |-> FALSE, kind |-> "unparsed", ncodecs |-> 0]

\* What each binary can get from parsing a payload.
ParseResults == [k \in {"dsp", "codec"} |-> {Parse(k, pl) : pl \in Payloads}]

\* ------------------------------------------------------------ handler steps
\* A step of a handler: the call made, what it is made on, and a number: the
\* percentage of a progress report, the 1-based position of the codec for a
\* step of process_single_codec, 0 otherwise.
St(op, arg, pct) == [op |-> op, arg |-> arg, pct |-> pct]
Progress(p) == St("progress", "progress", p)

AnalyzeSteps ==
    << Progress(10), St("tempdir", "", 0), St("download", "input.wav", 0),
       Progress(30), St("decode", "input.wav", 0),
       Progress(50), St("kernel", "analyze_audio", 0),
       Progress(80), St("serialize", "analysis.json", 0),
       St("upload", "analysis.json", 0),
       Progress(100), St("result", "analysis", 0) >>

FixSteps ==
    << Progress(10), St("tempdir", "", 0), St("download", "input.wav", 0),
       Progress(30), St("decode", "input.wav", 0),
       St("kernel", "apply_fixes", 0),
       Progress(70), St("encode", "fixed.wav", 0),
       St("upload", "fixed.wav", 0),
       Progress(100), St("result", "fix", 0) >>

\* Variant: each master file is uploaded as soon as it is written.
MasterStepsUploadEarly ==
    << Progress(5), St("tempdir", "", 0), St("download", "input.wav", 0),
       Progress(15), St("decode", "input.wav", 0),
       Progress(25), Progress(40), Progress(55),
       St("kernel", "apply_mastering", 0),
       Progress(70), St("encode", "master_24bit.wav", 0),
       St("upload", "master_24bit.wav", 0),
       Progress(80), St("encode", "master_16bit.wav", 0),
       St("upload", "master_16bit.wav", 0),
       Progress(85), St("encode", "master.mp3", 0),
       Progress(90), St("upload", "master.mp3", 0),
       St("serialize", "qc.json", 0), St("upload", "qc.json", 0),
       Progress(100), St("result", "master", 0) >>

MasterSteps ==
    << Progress(5), St("tempdir", "", 0), St("download", "input.wav", 0),
       Progress(15), St("decode", "input.wav", 0),
       Progress(25), Progress(40), Progress(55),
       St("kernel", "apply_mastering", 0),
       Progress(70), St("encode", "master_24bit.wav", 0),
       Progress(80), St("encode", "master_16bit.wav", 0),
       Progress(85), St("encode", "master.mp3", 0),
       Progress(90), St("upload", "master_24bit.wav", 0),
       St("upload", "master_16bit.wav", 0),
       St("upload", "master.mp3", 0),
       St("serialize", "qc.json", 0), St("upload", "qc.json", 0),
       Progress(100), St("result", "master", 0) >>

\* process_single_codec for the i-th codec (0-based) of n, preceded by the
\* progress report of the loop body.
SingleCodecSteps(i, n) ==
    << Progress(20 + ((i * 60) \div (IF n > 1 THEN n ELSE 1))),
       St("parse_codec", "codec", i + 1),
       St("encode", "preview", i + 1),
       St("decode", "preview", i + 1),
       St("decode", "decoded.wav", i + 1),
       St("kernel", "calculate_true_peak", i + 1),
       St("kernel", "calculate_artifact_score", i + 1),
       St("upload", "preview", i + 1) >>

\* Variant: the codecs are gone through from the last to the first.
RECURSIVE CodecLoopStepsReversed(_, _)
CodecLoopStepsReversed(i, n) ==
    IF i >= n THEN << >>
    ELSE CodecLoopStepsReversed(i + 1, n) \o SingleCodecSteps(i, n)

RECURSIVE CodecLoopSteps(_, _)
CodecLoopSteps(i, n) ==
    IF i >= n THEN << >> ELSE SingleCodecSteps(i, n) \o CodecLoopSteps(i + 1, n)

CodecPreviewSteps(n) ==
    << Progress(5), St("tempdir", "", 0), St("download", "master.wav", 0),
       Progress(15), St("decode", "master.wav", 0) >>
    \o CodecLoopSteps(0, n)
    \o << Progress(95), St("result", "codec-preview", 0), Progress(100) >>

\* process_codec_preview for every length of the codec list.
CodecPreviewTable == [n \in 0..MaxCodecs |-> CodecPreviewSteps(n)]

\* process_job: the handler each variant dispatches to; album-master and
\* export return Ok(()) at once.
StepsOf(job) ==
    CASE job.kind = "analyze" -> AnalyzeSteps
      [] job.kind = "fix" -> FixSteps
      [] job.kind = "master" -> MasterSteps
      [] job.kind = "codec-preview" -> CodecPreviewTable[job.ncodecs]
      [] OTHER -> << >>

\* Whether the call behind a step can return Err: every await and every `?`
\* site, except the calls whose body only ever returns Ok (apply_fixes and
\* its modules, calculate_artifact_score, serialising plain numbers).
CanErr(s) ==
    CASE s.op = "serialize" -> FALSE
      [] s.op = "kernel" -> s.arg \in {"analyze_audio", "apply_mastering",
                                       "calculate_true_peak"}
      [] OTHER -> TRUE

\* ------------------------------------------------------------------ limiter
\* QC_TRUE_PEAK_MAX in tenths of a dB.
QcTruePeakMax == -20
\* Final true peaks a mastering run may measure, tenths of a dB.
TruePeaks == {-30, -20, -10}

\* Sample rates of the decoded buffers considered, Hz.
Rates == {100, 200, 400}
\* Largest frame count of a decoded buffer.
MaxFrames == 3

\* lookahead_samples = (0.005 * sample_rate) as usize
Lookahead(rate) == (5 * rate) \div 1000

\* Whether apply_limiter faults on a channel of len samples: `i % 0` on the
\* first sample when the lookahead is 0, and `len - lookahead_samples`
\* underflowing usize, which panics only when overflow checks are compiled in.
LimiterFaults(len, rate, checks) ==
    \/ len > 0 /\ Lookahead(rate) = 0
    \/ checks /\ len < Lookahead(rate)

BufShapes == [len : 0..MaxFrames, rate : Rates]

\* passes_qc = final_true_peak <= QC_TRUE_PEAK_MAX
PassesQc(tp) == tp <= QcTruePeakMax

\* Variant: a failed QC gate is returned as an error.
MasteringOutcomeQcGate(tp) == IF tp <= QcTruePeakMax THEN "ok" ELSE "err"
\* What apply_mastering returns once the limiter has measured tp: Ok with
\* the MasteringResult, whatever passes_qc is.
MasteringOutcome(tp) == "ok"

NoResult == [has |-> FALSE, passes_qc |-> TRUE]
MasteringResult(tp) == [has |-> TRUE, passes_qc |-> PassesQc(tp)]

\* --------------------------------------------------------------- dispatcher
Last(s) == s[Len(s)]

Ev(s, out, qc) == [op |-> s.op, arg |-> s.arg, pct |-> s.pct, out |-> out, qc |-> qc]

QcTag(passes) == IF passes THEN "pass" ELSE "fail"

\* LPUSH by the producer, BRPOP by the workers: the list's right end is the
\* oldest element.
Lpush(list, x) == <<x>> \o list
\* The list after the producer has pushed payloads 1..n in this order.
RECURSIVE Produced(_)
Produced(n) == IF n = 0 THEN << >> ELSE Lpush(Produced(n - 1), n)

\* Variant: BLPOP, which takes the newest element.
Blpop(list) == [elem |-> list[1], rest |-> Tail(list)]
\* Variant: reading the oldest element without removing it.
PeekRight(list) == [elem |-> list[Len(list)], rest |-> list]
Brpop(list) == [elem |-> list[Len(list)], rest |-> SubSeq(list, 1, Len(list) - 1)]

\* Variant: the failure goes to the endpoint named like the payload's tag.
FailureEndpointByTag(kind) == kind
\* Endpoint of the failure webhook: job_type of the match in main (dsp) and
\* the fixed URL of report_failure (codec).
FailureEndpoint(kind) ==
    CASE kind = "analyze" -> "analysis"
      [] kind = "fix" -> "fix"
      [] kind = "master" -> "master"
      [] kind = "album-master" -> "album-master"
      [] kind = "export" -> "export"
      [] OTHER -> "codec-preview"

\* Variant: a payload that does not parse is reported as a failed job.
AfterParseErrorReported == "failing"
\* Where the loop goes when the payload does not parse: log and loop.
AfterParseError == "pop"
\* Variant: main propagates the handler's error with `?` and the process ends.
AfterHandlerErrPropagated == "exited"
\* Variant: main drops the handler's error without reporting it.
AfterHandlerErrSwallowed == "pop"
\* Variant: the step that returned Err is attempted again.
AfterHandlerErrRetried == "run"
\* Where the loop goes when the handler returned Err: report the failure.
AfterHandlerErr == "failing"
\* Where the loop goes after the failure webhook, delivered or not.
AfterReportFailure(out) == "pop"
\* Variant: the directory is kept (TempDir::into_path) and never removed.
LeakScratch(n) == n
\* TempDir values left alive when the handler's scope is left.
ReleaseScratch(n) == 0

\* The state once the processes in `started` have connected to the queue and
\* entered the main loop, with the producer's payloads waiting in the queue of
\* the pool's kind. A pool runs one binary: workers of different kinds listen
\* on different queues and share nothing.
InitDispatcher(started, k) ==
    /\ wkind = [w \in Workers |-> k]
    /\ queue = [q \in QueueNames |->
                 IF q = QueueOf(k) THEN Produced(MaxPayloads) ELSE << >>]
    /\ pc = [w \in Workers |-> IF w \in started THEN "pop" ELSE "off"]
    /\ cur = [w \in Workers |-> NoJob]
    /\ ip = [w \in Workers |-> 0]
    /\ log = [w \in Workers |-> << >>]
    /\ scratch = [w \in Workers |-> 0]
    /\ res = [w \in Workers |-> NoResult]
    /\ exitCause = [w \in Workers |-> "none"]
    /\ taken = [p \in PayloadIds |-> 0]
    /\ runs = [p \in PayloadIds |-> 0]

\* No call of apply_limiter is being followed.
LimiterIdle ==
    /\ lpc = "idle"
    /\ lcfg = [input |-> << >>, rate |-> 0, makeup |-> 0, checks |-> FALSE]
    /\ buffer = << >>
    /\ ch = 0
    /\ pos = 0
    /\ lookahead = << >>
    /\ gain_reduction = 0

\* No call of apply_fixes is being followed.
FixIdle ==
    /\ fpc = "idle"
    /\ fcfg = [input |-> << >>, rate |-> 0, modules |-> << >>]
    /\ fbuf = << >>
    /\ mi = 0
    /\ changes = << >>
    /\ ftrace = << >>

\* No pure kernel call is being followed.
CallIdle ==
    /\ call = [fn |-> "none"]
    /\ ret = [done |-> FALSE]

\* One worker process.
Init ==
    /\ LimiterIdle /\ FixIdle /\ CallIdle
    /\ \E k \in WorkerKinds : InitDispatcher({"w1"}, k)
\* Two worker processes on the same queue.
InitPool ==
    /\ LimiterIdle /\ FixIdle /\ CallIdle
    /\ \E k \in WorkerKinds : InitDispatcher(Workers, k)

\* One turn of the main loop up to the first suspension of the handler:
\* brpop returns a payload, it is parsed, and process_job is entered. A
\* handler without steps (album-master, export) returns Ok at once.
Pop(w) ==
    /\ pc[w] = "pop"
    /\ queue[QueueOf(wkind[w])] # << >>
    /\ LET got == Brpop(queue[QueueOf(wkind[w])])
       IN /\ queue' = [queue EXCEPT ![QueueOf(wkind[w])] = got.rest]
          /\ taken' = [taken EXCEPT ![got.elem] = @ + 1]
          /\ \E parsed \in ParseResults[wkind[w]] :
                LET job == [id |-> got.elem, kind |-> parsed.kind,
                            ncodecs |-> parsed.ncodecs]
                IN /\ cur' = [cur EXCEPT ![w] = job]
                   /\ IF parsed.ok
                      THEN /\ runs' = [runs EXCEPT ![got.elem] = @ + 1]
                           /\ pc' = [pc EXCEPT ![w] =
                                       IF StepsOf(job) = << >> THEN "pop" ELSE "run"]
                           /\ ip' = [ip EXCEPT ![w] = 1]
                      ELSE /\ pc' = [pc EXCEPT ![w] = AfterParseError]
                           /\ ip' = [ip EXCEPT ![w] = 0]
                           /\ UNCHANGED runs
    /\ log' = [log EXCEPT ![w] = << >>]
    /\ res' = [res EXCEPT ![w] = NoResult]
    /\ UNCHANGED <<wkind, scratch, exitCause>>
    /\ UNCHANGED kernelVars

\* brpop itself returns Err: the `?` in main leaves the loop and the process
\* ends, and with it what the process held of its last job.
QueueError(w) ==
    /\ pc[w] = "pop"
    /\ pc' = [pc EXCEPT ![w] = "exited"]
    /\ exitCause' = [exitCause EXCEPT ![w] = "queue"]
    /\ cur' = [cur EXCEPT ![w] = NoJob]
    /\ ip' = [ip EXCEPT ![w] = 0]
    /\ log' = [log EXCEPT ![w] = << >>]
    /\ res' = [res EXCEPT ![w] = NoResult]
    /\ UNCHANGED <<queue, wkind, scratch, taken, runs>>
    /\ UNCHANGED kernelVars

CurStep(w) == StepsOf(cur[w])[ip[w]]

\* The step's call returns Ok. After the last step the handler returns Ok
\* and its TempDir is dropped.
Advance(w, ev) ==
    /\ log' = [log EXCEPT ![w] = Append(@, ev)]
    /\ IF ip[w] = Len(StepsOf(cur[w]))
       THEN /\ pc' = [pc EXCEPT ![w] = "pop"]
            /\ scratch' = [scratch EXCEPT ![w] = ReleaseScratch(@)]
            /\ ip' = ip
       ELSE /\ ip' = [ip EXCEPT ![w] = @ + 1]
            /\ pc' = pc
            /\ scratch' = [scratch EXCEPT ![w] =
                             IF ev.op = "tempdir" THEN @ + 1 ELSE @]

StepOk(w) ==
    /\ pc[w] = "run"
    /\ LET s == CurStep(w)
       IN IF s.op = "kernel" /\ s.arg = "apply_mastering"
          THEN /\ \E b \in BufShapes, chk \in BOOLEAN :
                    ~LimiterFaults(b.len, b.rate, chk)
               /\ \E tp \in TruePeaks :
                    /\ MasteringOutcome(tp) = "ok"
                    /\ res' = [res EXCEPT ![w] = MasteringResult(tp)]
                    /\ Advance(w, Ev(s, "ok", QcTag(PassesQc(tp))))
          ELSE /\ res' = res
               /\ Advance(w, Ev(s, "ok",
                     IF s.op = "result" /\ res[w].has
                     THEN QcTag(res[w].passes_qc) ELSE "na"))
    /\ UNCHANGED <<queue, wkind, cur, exitCause, taken, runs>>
    /\ UNCHANGED kernelVars

\* The step's call returns Err: `?` returns from the handler, dropping its
\* TempDir, and main goes on to report the failure.
Fail(w, ev) ==
    /\ log' = [log EXCEPT ![w] = Append(@, ev)]
    /\ scratch' = [scratch EXCEPT ![w] = ReleaseScratch(@)]
    /\ pc' = [pc EXCEPT ![w] = AfterHandlerErr]
    /\ UNCHANGED <<queue, wkind, cur, ip, res, exitCause, taken, runs>>
    /\ UNCHANGED kernelVars

StepErr(w) ==
    /\ pc[w] = "run"
    /\ LET s == CurStep(w)
       IN \/ /\ CanErr(s)
             /\ Fail(w, Ev(s, "err", "na"))
          \/ /\ s.op = "kernel" /\ s.arg = "apply_mastering"
             /\ \E tp \in TruePeaks :
                  /\ MasteringOutcome(tp) = "err"
                  /\ Fail(w, Ev(s, "err", QcTag(PassesQc(tp))))

\* apply_limiter panics inside apply_mastering: the panic unwinds through
\* the handler (dropping its TempDir) and main, and the process ends.
StepPanic(w) ==
    /\ pc[w] = "run"
    /\ CurStep(w).op = "kernel" /\ CurStep(w).arg = "apply_mastering"
    /\ \E b \in BufShapes, chk \in BOOLEAN : LimiterFaults(b.len, b.rate, chk)
    /\ log' = [log EXCEPT ![w] = Append(@, Ev(CurStep(w), "panic", "na"))]
    /\ scratch' = [scratch EXCEPT ![w] = ReleaseScratch(@)]
    /\ pc' = [pc EXCEPT ![w] = "exited"]
    /\ exitCause' = [exitCause EXCEPT ![w] = "panic"]
    /\ UNCHANGED <<queue, wkind, cur, ip, res, taken, runs>>
    /\ UNCHANGED kernelVars

\* report_failure: one POST with status "failed"; its own failure is logged
\* (dsp) or discarded with .ok() (codec), and the loop continues.
ReportFailure(w) ==
    /\ pc[w] = "failing"
    /\ \E out \in {"ok", "err"} :
         /\ log' = [log EXCEPT ![w] = Append(@,
                      [op |-> "failure", arg |-> FailureEndpoint(cur[w].kind),
                       pct |-> 0, out |-> out, qc |-> "na"])]
         /\ pc' = [pc EXCEPT ![w] = AfterReportFailure(out)]
    /\ UNCHANGED <<queue, wkind, cur, ip, scratch, res, exitCause,
                   taken, runs>>
    /\ UNCHANGED kernelVars

Next ==
    \/ \E w \in Workers : Pop(w)
    \/ \E w \in Workers : QueueError(w)
    \/ \E w \in Workers : StepOk(w)
    \/ \E w \in Workers : StepErr(w)
    \/ \E w \in Workers : StepPanic(w)
    \/ \E w \in Workers : ReportFailure(w)

Spec == Init /\ [][Next]_vars
PoolSpec == InitPool /\ [][Next]_vars

\* Every awaited call of a running handler returns, and so does the POST of
\* the failure webhook: the worker is not killed and its peers answer.
FairSpec ==
    /\ Spec
    /\ \A w \in Workers : WF_vars(StepOk(w) \/ StepErr(w) \/ StepPanic(w))
    /\ \A w \in Workers : WF_vars(ReportFailure(w))

\* ------------------------------------------------------------ apply_limiter
\* Channel counts of the decoded buffers considered: mono and stereo.
ChannelCounts == {1, 2}
\* Full scale: the f32 value 1.0 in fixed point.
Unit == 1000
\* ceiling_linear = 10^(QC_TRUE_PEAK_MAX / 20) = 0.7943...
CeilingLinear == 794
\* Sample values of the input buffers considered.
SampleVals == {-1000, 0, 600}
\* Make-up gains the loudness measurement may ask for: 0 dB and +6 dB.
MakeupGains == {1000, 2000}
\* Stands for usize::MAX: above every length.
UsizeMax == 2147483647

\* release_coef = exp(-1 / (release_ms * sample_rate / 1000)), release_ms = 100
ReleaseCoef(rate) ==
    CASE rate = 100 -> 905
      [] rate = 200 -> 951
      [] OTHER -> 975

Abs(x) == IF x < 0 THEN -x ELSE x

\* x * g for a gain g >= 0.
Scale(x, g) == IF x < 0 THEN -(((-x) * g) \div Unit) ELSE (x * g) \div Unit

\* lookahead.iter().cloned().fold(0.0, f32::max)
Peak(ring) ==
    LET S == {0} \cup {ring[k] : k \in DOMAIN ring}
    IN CHOOSE m \in S : \A x \in S : x <= m

\* target_gr: ceiling_linear / peak above the ceiling, 1.0 otherwise.
TargetGr(peak) ==
    IF peak > CeilingLinear THEN (CeilingLinear * Unit) \div peak ELSE Unit

\* Instant attack, one-pole release.
Smooth(gr, target, rc) ==
    IF target < gr THEN target ELSE (rc * gr + (Unit - rc) * target) \div Unit

\* len - lookahead_samples in usize without overflow checks.
WrappingSub(a, b) == IF a >= b THEN a - b ELSE UsizeMax - (b - a) + 1

\* Decoded buffers: every channel has the same number of frames.
Buffers ==
    UNION {[1..n -> [1..len -> SampleVals]] : n \in ChannelCounts, len \in 0..MaxFrames}

NonSilent(b) == \E c \in DOMAIN b : \E k \in DOMAIN b[c] : b[c][k] # 0

\* Entry of apply_limiter on a decoded buffer, with the make-up gain the
\* loudness measurement asked for.
LimInit ==
    /\ InitDispatcher({}, "dsp")
    /\ FixIdle /\ CallIdle
    /\ \E b \in Buffers, r \in Rates, m \in MakeupGains, c \in BOOLEAN :
         /\ lcfg = [input |-> b, rate |-> r, makeup |-> m, checks |-> c]
         /\ buffer = b
    /\ lpc = "channel"
    /\ ch = 1
    /\ pos = 0
    /\ lookahead = << >>
    /\ gain_reduction = Unit

ChannelLen == Len(buffer[ch])
LookaheadSamples == Lookahead(lcfg.rate)

\* `for channel in &mut buffer.samples`: the next channel gets a zeroed ring
\* and a gain of 1.0.
BeginChannel ==
    /\ lpc = "channel"
    /\ ch <= Len(buffer)
    /\ lookahead' = [k \in 1..LookaheadSamples |-> 0]
    /\ gain_reduction' = Unit
    /\ pos' = 0
    /\ lpc' = "loop"
    /\ UNCHANGED <<lcfg, buffer, ch, dispVars, fixVars, callVars>>

\* One iteration of `for i in 0..len`.
SampleStep ==
    /\ lpc = "loop"
    /\ pos < ChannelLen
    /\ LookaheadSamples > 0
    /\ LET x == Scale(buffer[ch][pos + 1], lcfg.makeup)
           ring == [lookahead EXCEPT ![(pos % LookaheadSamples) + 1] = Abs(x)]
           gr == Smooth(gain_reduction, TargetGr(Peak(ring)), ReleaseCoef(lcfg.rate))
           made == [buffer[ch] EXCEPT ![pos + 1] = x]
           delayed == IF pos >= LookaheadSamples
                      THEN [made EXCEPT ![pos - LookaheadSamples + 1] = Scale(@, gr)]
                      ELSE made
       IN /\ lookahead' = ring
          /\ gain_reduction' = gr
          /\ buffer' = [buffer EXCEPT ![ch] = delayed]
    /\ pos' = pos + 1
    /\ UNCHANGED <<lpc, lcfg, ch, dispVars, fixVars, callVars>>

\* `i % lookahead_samples` with a lookahead of 0 samples: the make-up gain
\* has been applied to the sample, then the remainder panics.
RemainderByZero ==
    /\ lpc = "loop"
    /\ pos < ChannelLen
    /\ LookaheadSamples = 0
    /\ buffer' = [buffer EXCEPT ![ch][pos + 1] = Scale(@, lcfg.makeup)]
    /\ lpc' = "panicked"
    /\ UNCHANGED <<lcfg, ch, pos, lookahead, gain_reduction, dispVars, fixVars, callVars>>

\* `for i in (len - lookahead_samples)..len`: the last samples get the final
\* gain. Without overflow checks a channel shorter than the lookahead gives
\* a start above len, an empty range.
TailFlush ==
    /\ lpc = "loop"
    /\ pos = ChannelLen
    /\ ChannelLen >= LookaheadSamples \/ ~lcfg.checks
    /\ LET start == WrappingSub(ChannelLen, LookaheadSamples)
       IN buffer' = [buffer EXCEPT ![ch] =
                       [k \in DOMAIN @ |->
                          IF k - 1 >= start THEN Scale(@[k], gain_reduction) ELSE @[k]]]
    /\ ch' = ch + 1
    /\ lpc' = "channel"
    /\ UNCHANGED <<lcfg, pos, lookahead, gain_reduction, dispVars, fixVars, callVars>>

\* With overflow checks `len - lookahead_samples` panics on a channel
\* shorter than the lookahead.
SubtractOverflow ==
    /\ lpc = "loop"
    /\ pos = ChannelLen
    /\ ChannelLen < LookaheadSamples
    /\ lcfg.checks
    /\ lpc' = "panicked"
    /\ UNCHANGED <<lcfg, buffer, ch, pos, lookahead, gain_reduction, dispVars, fixVars, callVars>>

\* Every channel is done: the final loudness and true peak are measured and
\* the function returns.
LimiterReturn ==
    /\ lpc = "channel"
    /\ ch > Len(buffer)
    /\ lpc' = "done"
    /\ UNCHANGED <<lcfg, buffer, ch, pos, lookahead, gain_reduction, dispVars, fixVars, callVars>>

LimNext ==
    \/ BeginChannel
    \/ SampleStep
    \/ RemainderByZero
    \/ TailFlush
    \/ SubtractOverflow
    \/ LimiterReturn

LimSpec == LimInit /\ [][LimNext]_vars

\* -------------------------------------------------------------- fix modules
\* n / d rounded towards zero, d > 0.
Trunc(n, d) == IF n < 0 THEN -((-n) \div d) ELSE n \div d

\* a * b in fixed point, either sign.
Mul(a, b) == Trunc(a * b, Unit)

SetMax(S) == CHOOSE m \in S : \A x \in S : x <= m

\* The largest |sample| of the buffer, 0.0 for an empty one.
MaxSample(b) ==
    SetMax({0} \cup UNION {{Abs(b[c][k]) : k \in DOMAIN b[c]} : c \in DOMAIN b})

\* What a module returns and leaves: the buffer and Some / None.
Out(b, some) == [buf |-> b, change |-> some]

\* target_linear = 10^(-1 / 20) = 0.8912...
TargetLinear == 891

\* max_sample < 0.0001
TooQuiet(b) == MaxSample(b) * 10000 < Unit

\* gain = target_linear / max_sample
NormalizeGain(b) == (TargetLinear * Unit) \div MaxSample(b)

\* Variant: the gain is applied however close to unity it is.
NeverUnity(gain) == FALSE
\* (gain - 1.0).abs() < 0.01
IsUnity(gain) == Abs(gain - Unit) * 100 < Unit

apply_normalize(b) ==
    IF TooQuiet(b) THEN Out(b, FALSE)
    ELSE IF IsUnity(NormalizeGain(b)) THEN Out(b, FALSE)
    ELSE Out([c \in DOMAIN b |->
                [k \in DOMAIN b[c] |-> Mul(b[c][k], NormalizeGain(b))]], TRUE)

\* clip_threshold = 0.99
ClipThreshold == 990
Clipped(x) == Abs(x) >= ClipThreshold

\* The inner while: the first index from i on (0-based) that is the last of
\* the channel or not clipped.
RECURSIVE RunEnd(_, _)
RunEnd(chan, i) ==
    IF i < Len(chan) - 1 /\ Clipped(chan[i + 1]) THEN RunEnd(chan, i + 1) ELSE i

\* smooth_t = t * t * (3 - 2 * t), t = (j + 1) / (region_len + 1)
SmoothT(j, region_len) ==
    LET t == ((j + 1) * Unit) \div (region_len + 1)
    IN (((t * t) \div Unit) * (3 * Unit - 2 * t)) \div Unit

\* Variant: the region is counted as repaired and left as it is.
NoInterpolate(chan, start, end) == chan
\* The for loop over j in 0..region_len, region_len = end - start + 1.
Interpolate(chan, start, end) ==
    LET start_val == chan[start]
        end_val == chan[end + 1]
        region_len == end - start + 1
    IN [k \in DOMAIN chan |->
          IF k - 1 >= start /\ k - 1 < start + region_len
          THEN start_val + Mul(end_val - start_val, SmoothT(k - 1 - start, region_len))
          ELSE chan[k]]

\* The outer while from i on, n samples repaired so far.
RECURSIVE ClipScan(_, _, _)
ClipScan(chan, i, n) ==
    IF i >= Len(chan) - 1 THEN [chan |-> chan, n |-> n]
    ELSE IF Clipped(chan[i + 1])
         THEN LET end == RunEnd(chan, i)
              IN IF i > 0 /\ end < Len(chan)
                 THEN ClipScan(Interpolate(chan, i, end), end + 1, n + (end - i + 1))
                 ELSE ClipScan(chan, end + 1, n)
         ELSE ClipScan(chan, i + 1, n)

RepairChannel(chan) ==
    IF Len(chan) < 3 THEN [chan |-> chan, n |-> 0] ELSE ClipScan(chan, 1, 0)

apply_clip_repair(b) ==
    LET r == [c \in DOMAIN b |-> RepairChannel(b[c])]
    IN Out([c \in DOMAIN b |-> r[c].chan], \E c \in DOMAIN b : r[c].n > 0)

\* alpha = dt / (rc + dt), rc = 1 / (2 pi 4000), dt = 1 / sample_rate:
\* alpha = 2 pi 4000 / (2 pi 4000 + sample_rate), 2 pi 4000 = 25133.
DeEssAlpha(rate) == (Unit * 25133) \div (25133 + rate)

\* attack_coef = 1 / (0.001 * sample_rate), release_coef = 1 / (0.050 * sample_rate)
DeEssAttackCoef(rate) == (Unit * 1000) \div rate
DeEssReleaseCoef(rate) == (Unit * 20) \div rate

\* threshold = 0.3, ratio = 0.5, gain_reduction.max(0.3)
DeEssThreshold == 300
DeEssRatio == 500
DeEssMinGain == 300

\* gain_reduction = 1 - (1 - ratio) * (envelope - threshold) / envelope
DeEssGain(envelope) ==
    LET gr == Unit - Mul(Unit - DeEssRatio,
                         Trunc((envelope - DeEssThreshold) * Unit, envelope))
    IN IF gr > DeEssMinGain THEN gr ELSE DeEssMinGain

\* The body of `for i in 0..len` from i on: st holds the channel, prev_hp,
\* envelope and the channel's share of reduction_count.
RECURSIVE DeEssScan(_, _, _)
DeEssScan(st, i, rate) ==
    IF i >= Len(st.chan) THEN st
    ELSE LET alpha == DeEssAlpha(rate)
             prev == IF i > 0 THEN st.chan[i] ELSE 0
             hp == Mul(alpha, st.prev_hp + st.chan[i + 1] - prev)
             hp_abs == Abs(hp)
             coef == IF hp_abs > st.envelope THEN DeEssAttackCoef(rate)
                                             ELSE DeEssReleaseCoef(rate)
             env == st.envelope + Mul(hp_abs - st.envelope, coef)
             x == Mul(st.chan[i + 1], Unit - alpha)
                    + Mul(Mul(hp, DeEssGain(env)), alpha)
         IN DeEssScan(
              [chan |-> IF env > DeEssThreshold
                        THEN [st.chan EXCEPT ![i + 1] = x] ELSE st.chan,
               prev_hp |-> hp,
               envelope |-> env,
               n |-> IF env > DeEssThreshold THEN st.n + 1 ELSE st.n],
              i + 1, rate)

DeEssChannel(chan, rate) ==
    IF Len(chan) < 2 THEN [chan |-> chan, prev_hp |-> 0, envelope |-> 0, n |-> 0]
    ELSE DeEssScan([chan |-> chan, prev_hp |-> 0, envelope |-> 0, n |-> 0], 0, rate)

apply_de_ess(b, rate) ==
    LET r == [c \in DOMAIN b |-> DeEssChannel(b[c], rate)]
    IN Out([c \in DOMAIN b |-> r[c].chan], \E c \in DOMAIN b : r[c].n > 0)

\* gate_threshold = noise_floor * 2.0 = 0.002
GateThreshold == 2

\* attack_samples = (0.005 * sample_rate) as usize
AttackSamples(rate) == (5 * rate) \div 1000
\* release_samples = (0.050 * sample_rate) as usize
ReleaseSamples(rate) == (50 * rate) \div 1000

\* The envelope is kept in 1 / EnvScale of a sample unit, so that the slow
\* follower at audio rates moves at all.
EnvScale == 1000

\* An f32 envelope: a finite value or one of the specials that the division
\* by attack_samples as f32 = 0.0 produces. release_samples is at least 1 at
\* every rate of the model, so the envelope never falls to -inf.
Fin(v) == [k |-> "fin", v |-> v]
Inf == [k |-> "inf", v |-> 0]
NaN == [k |-> "nan", v |-> 0]

\* envelope += (abs_sample - envelope) / n as f32
Follow(env, abs_sample, n) ==
    CASE env.k = "nan" -> NaN
      [] env.k = "inf" -> NaN                 \* inf + (x - inf) / n
      [] n = 0 -> IF abs_sample * EnvScale = env.v THEN NaN   \* 0.0 / 0.0
                  ELSE Inf
      [] OTHER -> Fin(env.v + Trunc(abs_sample * EnvScale - env.v, n))

\* The envelope follower's choice of divisor: abs_sample > envelope is false
\* for a NaN and for an infinite envelope.
FollowEnvelope(env, abs_sample, rate) ==
    IF env.k = "fin" /\ abs_sample * EnvScale > env.v
    THEN Follow(env, abs_sample, AttackSamples(rate))
    ELSE Follow(env, abs_sample, ReleaseSamples(rate))

\* envelope > gate_threshold
AboveGate(env) == env.k = "inf" \/ (env.k = "fin" /\ env.v > GateThreshold * EnvScale)

\* Variant: a sample met with the gate closed is muted.
Mute(env) == 0
\* attenuation = 0.1 + 0.9 * (envelope / gate_threshold).min(1.0); f32::min
\* of a NaN and 1.0 is 1.0.
Attenuation(env) ==
    CASE env.k = "fin" ->
           LET q == Trunc(env.v * Unit, GateThreshold * EnvScale)
           IN 100 + Mul(900, IF q < Unit THEN q ELSE Unit)
      [] OTHER -> Unit

\* The body of `for i in 0..len` from i on: st holds the channel, envelope,
\* gate_open, hold_counter and the channel's share of gated_samples.
RECURSIVE GateScan(_, _, _)
GateScan(st, i, rate) ==
    IF i >= Len(st.chan) THEN st
    ELSE LET env == FollowEnvelope(st.envelope, Abs(st.chan[i + 1]), rate)
             open == IF AboveGate(env) THEN TRUE
                     ELSE IF st.hold_counter > 0 THEN st.gate_open
                     ELSE FALSE
             hold == IF AboveGate(env) THEN ReleaseSamples(rate)
                     ELSE IF st.hold_counter > 0 THEN st.hold_counter - 1
                     ELSE st.hold_counter
         IN GateScan(
              [chan |-> IF open THEN st.chan
                        ELSE [st.chan EXCEPT ![i + 1] = Mul(@, Attenuation(env))],
               envelope |-> env,
               gate_open |-> open,
               hold_counter |-> hold,
               n |-> IF open THEN st.n ELSE st.n + 1],
              i + 1, rate)

GateChannel(chan, rate) ==
    GateScan([chan |-> chan, envelope |-> Fin(0), gate_open |-> FALSE,
              hold_counter |-> 0, n |-> 0], 0, rate)

apply_noise_reduction(b, rate) ==
    LET r == [c \in DOMAIN b |-> GateChannel(b[c], rate)]
    IN Out([c \in DOMAIN b |-> r[c].chan], \E c \in DOMAIN b : r[c].n > 0)

RECURSIVE Sum(_)
Sum(chan) == IF chan = << >> THEN 0 ELSE Head(chan) + Sum(Tail(chan))

\* offset = (sum / channel.len()) as f32
DcOffset(chan) == Trunc(Sum(chan), Len(chan))

\* !channel.is_empty() && offset.abs() > 0.0001
HasOffset(chan) == Len(chan) > 0 /\ Abs(DcOffset(chan)) * 10000 > Unit

apply_dc_offset_removal(b) ==
    Out([c \in DOMAIN b |->
           IF HasOffset(b[c])
           THEN [k \in DOMAIN b[c] |-> b[c][k] - DcOffset(b[c])]
           ELSE b[c]],
        \E c \in DOMAIN b : HasOffset(b[c]))

\* silence_threshold = 0.001
SilenceThreshold == 1

\* min_silence_samples = (100 as f32 * sample_rate as f32 / 1000.0) as usize
MinSilenceSamples(rate) == (100 * rate) \div 1000

\* AudioBuffer::frame_count
FrameCount(b) == IF Len(b) = 0 THEN 0 ELSE Len(b[1])

\* Frames (0-based) whose loudest channel is above the threshold.
Audible(b) ==
    {i \in 0..(FrameCount(b) - 1) :
        \E c \in DOMAIN b : i < Len(b[c]) /\ Abs(b[c][i + 1]) > SilenceThreshold}

SetMin(S) == CHOOSE m \in S : \A x \in S : m <= x

\* i.saturating_sub(min_silence_samples) for the first audible frame i
StartFrame(b, rate) ==
    IF Audible(b) = {} THEN 0
    ELSE LET i == SetMin(Audible(b))
         IN IF i > MinSilenceSamples(rate) THEN i - MinSilenceSamples(rate) ELSE 0

\* (i + min_silence_samples).min(frame_count) for the last audible frame i
EndFrame(b, rate) ==
    IF Audible(b) = {} THEN FrameCount(b)
    ELSE LET e == SetMax(Audible(b)) + MinSilenceSamples(rate)
         IN IF e < FrameCount(b) THEN e ELSE FrameCount(b)

apply_silence_trim(b, rate) ==
    IF FrameCount(b) = 0 THEN Out(b, FALSE)
    ELSE IF StartFrame(b, rate) > 0 \/ FrameCount(b) - EndFrame(b, rate) > 0
    THEN Out([c \in DOMAIN b |->
                SubSeq(b[c], StartFrame(b, rate) + 1, EndFrame(b, rate))], TRUE)
    ELSE Out(b, FALSE)

\* ---------------------------------------------------------------- apply_fixes
MaxModules == 2

\* The six names apply_fixes matches, and one it does not.
ModuleNames ==
    {"normalize", "clip_repair", "de_ess", "noise_reduction", "dc_offset",
     "silence_trim"}
RequestNames == ModuleNames \cup {"reverb"}

FixRates == {20, 44100}
FixSampleVals == {-1000, 0, 2, 600}
StereoSampleVals == {0, 600}

SeqsUpTo(S, n) == UNION {[1..m -> S] : m \in 0..n}

MaxStereoFrames == 2

\* Mono buffers over FixSampleVals and shorter stereo ones over StereoSampleVals.
FixBuffers ==
    {<<ch1>> : ch1 \in SeqsUpTo(FixSampleVals, MaxFrames)}
      \cup UNION {{<<l, r>> : l \in [1..m -> StereoSampleVals],
                              r \in [1..m -> StereoSampleVals]} : m \in 0..MaxStereoFrames}

ModuleLists == SeqsUpTo(RequestNames, MaxModules)

FixInit ==
    /\ InitDispatcher({}, "dsp")
    /\ LimiterIdle
    /\ CallIdle
    /\ \E b \in FixBuffers, r \in FixRates, ms \in ModuleLists :
          /\ fcfg = [input |-> b, rate |-> r, modules |-> ms]
          /\ fbuf = b
    /\ fpc = "loop"
    /\ mi = 0
    /\ changes = << >>
    /\ ftrace = << >>

\* Variant: an unknown name ends the loop.
BreakOnUnknown(i, n) == n
\* `continue`: the loop goes on with the next name.
AfterUnknown(i, n) == i + 1

\* One iteration of the loop for the module `name`, which left r.
RunModule(name, r) ==
    /\ mi < Len(fcfg.modules)
    /\ fcfg.modules[mi + 1] = name
    /\ fbuf' = r.buf
    /\ changes' = IF r.change THEN Append(changes, name) ELSE changes
    /\ ftrace' = Append(ftrace, [module |-> name, before |-> fbuf,
                                 after |-> r.buf, reported |-> r.change])
    /\ mi' = mi + 1
    /\ UNCHANGED <<fpc, fcfg, dispVars, limVars, callVars>>

RunNormalize ==
    /\ fpc = "loop"
    /\ RunModule("normalize", apply_normalize(fbuf))
RunClipRepair ==
    /\ fpc = "loop"
    /\ RunModule("clip_repair", apply_clip_repair(fbuf))
RunDeEss ==
    /\ fpc = "loop"
    /\ RunModule("de_ess", apply_de_ess(fbuf, fcfg.rate))
RunNoiseReduction ==
    /\ fpc = "loop"
    /\ RunModule("noise_reduction", apply_noise_reduction(fbuf, fcfg.rate))
RunDcOffset ==
    /\ fpc = "loop"
    /\ RunModule("dc_offset", apply_dc_offset_removal(fbuf))
RunSilenceTrim ==
    /\ fpc = "loop"
    /\ RunModule("silence_trim", apply_silence_trim(fbuf, fcfg.rate))

SkipUnknown ==
    /\ fpc = "loop"
    /\ mi < Len(fcfg.modules)
    /\ fcfg.modules[mi + 1] \notin ModuleNames
    /\ mi' = AfterUnknown(mi, Len(fcfg.modules))
    /\ UNCHANGED <<fpc, fcfg, fbuf, changes, ftrace, dispVars, limVars, callVars>>

\* Ok(changes)
FixReturn ==
    /\ fpc = "loop"
    /\ mi >= Len(fcfg.modules)
    /\ fpc' = "done"
    /\ UNCHANGED <<fcfg, fbuf, mi, changes, ftrace, dispVars, limVars, callVars>>

FixNext ==
    \/ RunNormalize
    \/ RunClipRepair
    \/ RunDeEss
    \/ RunNoiseReduction
    \/ RunDcOffset
    \/ RunSilenceTrim
    \/ SkipUnknown
    \/ FixReturn

FixSpec == FixInit /\ [][FixNext]_vars

\* ------------------------------------------------------- calculate_sample_peak
\* Samples of the peak measurement are counted in 1 / PeakUnit of full scale.
PeakUnit == 10000000

\* What calculate_sample_peak returns for a buffer without a non-zero sample.
SilentPeakDb == -96

\* 10^(k / 20) * 10^4 for k = 0..19: the decibel steps within one decade.
DbSteps ==
    <<10000, 11220, 12589, 14125, 15849, 17783, 19953, 22387, 25119, 28184,
      31623, 35481, 39811, 44668, 50119, 56234, 63096, 70795, 79433, 89125>>

\* floor(log10(m)), m >= 1
RECURSIVE Log10Floor(_)
Log10Floor(m) == IF m < 10 THEN 0 ELSE 1 + Log10Floor(m \div 10)

RECURSIVE Pow10(_)
Pow10(e) == IF e = 0 THEN 1 ELSE 10 * Pow10(e - 1)

\* floor(20 * log10(m / PeakUnit)) for a magnitude m >= 1: the decade of m and
\* the step of its leading five digits.
FloorDb(m) ==
    LET e == Log10Floor(m)
        mant == IF e >= 4 THEN m \div Pow10(e - 4) ELSE m * Pow10(4 - e)
        k == SetMax({j \in 0..19 : DbSteps[j + 1] <= mant})
    IN 20 * (e - 7) + k

\* The value returned, rounded down to a whole decibel.
calculate_sample_peak(b) ==
    IF MaxSample(b) > 0 THEN FloorDb(MaxSample(b)) ELSE SilentPeakDb

MaxPeakFrames == 2
PeakSampleVals == {-10000000, -158, 0, 1, 159, 5000000}
QuietSampleVals == {0, 159}

\* Mono and stereo buffers with every |sample| <= 1.0.
PeakBuffers ==
    {<<ch1>> : ch1 \in SeqsUpTo(PeakSampleVals, MaxPeakFrames)}
      \cup UNION {{<<l, r>> : l \in [1..m -> QuietSampleVals],
                              r \in [1..m -> QuietSampleVals]} : m \in 0..MaxPeakFrames}

PeakCalls == {[fn |-> "calculate_sample_peak", buffer |-> b] : b \in PeakBuffers}

\* ------------------------------------------------ write_wav_file, read_wav_file
\* Samples of the WAV functions are counted in 1 / WavUnit of full scale;
\* WavUnit = 2^23, so that every sample of the model and every value read
\* back is an f32 and a whole number of units.
WavUnit == 8388608

\* The factors of the three arms of write_wav_file.
I16Max == 32767
I24Max == 8388607
I32Max == 2147483647

\* The divisors of read_wav_file at 16 and at 24 bit.
Full16 == 32768
Full24 == 8388608

\* a * b = q * d + r with 0 <= r < d, for 0 <= a <= d and b >= 0, without a
\* product that leaves 32 bits.
RECURSIVE MulDiv(_, _, _)
MulDiv(a, b, d) ==
    IF b = 0 THEN [q |-> 0, r |-> 0]
    ELSE LET h == MulDiv(a, b \div 2, d)
             t == 2 * h.r + (b % 2) * a
         IN [q |-> 2 * h.q + t \div d, r |-> t % d]

\* sample.clamp(-1.0, 1.0)
Clamp(x) == IF x > WavUnit THEN WavUnit ELSE IF x < -WavUnit THEN -WavUnit ELSE x

\* (x * m) as iN for |x| <= 1.0: the product rounded towards zero. The samples
\* of the model are such that rounding the product to an f32 does not carry
\* it to the next whole number.
TruncScale(x, m) ==
    IF x < 0 THEN -(MulDiv(-x, m, WavUnit).q) ELSE MulDiv(x, m, WavUnit).q

\* Variant: the product is rounded to the nearest integer, halves away from
\* zero (f32::round).
RoundScale(x, m) ==
    LET p == MulDiv(Abs(x), m, WavUnit)
        n == p.q + (IF 2 * p.r >= WavUnit THEN 1 ELSE 0)
    IN IF x < 0 THEN -n ELSE n

\* (x * 2147483647.0) as i32: the f32 nearest to 2147483647 is 2^31, the
\* product x * 2^31 is exact, and `as i32` saturates.
ToI32(x) ==
    IF x >= WavUnit THEN I32Max
    ELSE IF x <= -WavUnit THEN -I32Max - 1
    ELSE x * ((I32Max \div WavUnit) + 1)

\* The integer written for a sample at a supported bit depth.
WriteSample(bits, x) ==
    CASE bits = 16 -> TruncScale(Clamp(x), I16Max)
      [] bits = 24 -> TruncScale(Clamp(x), I24Max)
      [] bits = 32 -> ToI32(Clamp(x))

SupportedDepths == {16, 24, 32}

\* The nested loops: frame by frame, within a frame channel by channel.
Interleaved(b, bits) ==
    [n \in 1..(FrameCount(b) * Len(b)) |->
        WriteSample(bits, b[((n - 1) % Len(b)) + 1][((n - 1) \div Len(b)) + 1])]

\* The result and, when Ok, the file: its header fields and its samples.
write_wav_file(b, bits) ==
    IF bits \in SupportedDepths
    THEN [ok |-> TRUE, channels |-> Len(b), bits |-> bits, data |-> Interleaved(b, bits)]
    ELSE [ok |-> FALSE, channels |-> Len(b), bits |-> bits, data |-> << >>]

\* *sample as f32 / max_val; at 32 bit the i32 is first rounded to an f32,
\* which takes i32::MAX to 2^31.
ReadSample(bits, v) ==
    CASE bits = 16 -> v * (WavUnit \div Full16)
      [] bits = 24 -> v * (WavUnit \div Full24)
      [] bits = 32 -> IF v = I32Max THEN WavUnit
                      ELSE IF v = -I32Max - 1 THEN -WavUnit
                      ELSE Trunc(v, (I32Max \div WavUnit) + 1)

\* Sample i of the file goes to channel i % channels.
read_wav_file(f) ==
    [c \in 1..f.channels |->
        [i \in 1..(Len(f.data) \div f.channels) |->
            ReadSample(f.bits, f.data[(i - 1) * f.channels + c])]]

MaxWavFrames == 2
BitDepths == {8, 16, 24, 32}
\* -1.0, 0.0, 0.25, 0.5, 1.0 - 2^-17, 1.0 and 1.5
WavSampleVals == {-8388608, 0, 2097152, 4194304, 8388544, 8388608, 12582912}
StereoWavVals == {0, 4194304}

WavBuffers ==
    {<<ch1>> : ch1 \in SeqsUpTo(WavSampleVals, MaxWavFrames)}
      \cup UNION {{<<l, r>> : l \in [1..m -> StereoWavVals],
                              r \in [1..m -> StereoWavVals]} : m \in 0..MaxWavFrames}

WavCalls ==
    {[fn |-> "write_wav_file", buffer |-> b, bit_depth |-> d] :
        b \in WavBuffers, d \in BitDepths}

\* Calls of apply_silence_trim: rates at which 100 ms are 0, 1 and 2 frames.
MaxTrimFrames == 4
TrimRates == {5, 10, 20}
\* 0.0, the threshold itself (silent), and an audible value
TrimSampleVals == {0, 1, 600}

TrimBuffers ==
    {<<ch1>> : ch1 \in SeqsUpTo(TrimSampleVals, MaxTrimFrames)}
      \cup UNION {{<<l, r>> : l \in [1..m -> StereoSampleVals],
                              r \in [1..m -> StereoSampleVals]} : m \in 0..MaxStereoFrames}

TrimCalls ==
    {[fn |-> "apply_silence_trim", buffer |-> b, rate |-> r] :
        b \in TrimBuffers, r \in TrimRates}

\* Calls of apply_clip_repair on mono buffers: -1.0, 0.0, 0.6 and the
\* threshold 0.99 itself (clipped).
MaxClipFrames == 4
ClipSampleVals == {-1000, 0, 600, 990}

ClipCalls ==
    {[fn |-> "apply_clip_repair", buffer |-> <<ch1>>] :
        ch1 \in SeqsUpTo(ClipSampleVals, MaxClipFrames)}

\* ---------------------------------------------------------------- parse_s3_url
\* A URL is a sequence of tokens: its scheme with "://", for http(s) the
\* authority host[:port], and then single characters.
MaxUrlChars == 4
UrlChars == {"a", "/"}
Authority == "minio:9000"

Urls ==
    {<<"s3://">> \o t : t \in SeqsUpTo(UrlChars, MaxUrlChars)}
      \cup {<<"ftp://", Authority, "/">> \o t : t \in SeqsUpTo(UrlChars, MaxUrlChars - 1)}
      \cup {<<sch, Authority>> : sch \in {"http://", "https://"}}
      \cup {<<sch, Authority, "/">> \o t :
                sch \in {"http://", "https://"}, t \in SeqsUpTo(UrlChars, MaxUrlChars - 1)}

\* str.splitn(2, '/'): one part when there is no '/', else the text before
\* the first '/' and everything after it.
SplitN2(str) ==
    IF \E k \in DOMAIN str : str[k] = "/"
    THEN LET k == SetMin({j \in DOMAIN str : str[j] = "/"})
         IN <<SubSeq(str, 1, k - 1), SubSeq(str, k + 1, Len(str))>>
    ELSE <<str>>

\* str.trim_start_matches('/')
RECURSIVE TrimStartSlashes(_)
TrimStartSlashes(str) ==
    IF str # << >> /\ Head(str) = "/" THEN TrimStartSlashes(Tail(str)) ELSE str

\* Url::parse(url).path() of an http(s) URL: what follows the authority, "/"
\* when nothing does.
UrlPath(url) == IF Len(url) <= 2 THEN <<"/">> ELSE SubSeq(url, 3, Len(url))

ParsedOk(b, k) == [ok |-> TRUE, bucket |-> b, key |-> k]
ParseErr == [ok |-> FALSE, bucket |-> << >>, key |-> << >>]

\* parts.len() == 2
TwoParts(parts) == Len(parts) = 2

parse_s3_url(url) ==
    LET s3parts == SplitN2(Tail(url))
        httpparts == SplitN2(TrimStartSlashes(UrlPath(url)))
    IN IF Head(url) = "s3://" /\ TwoParts(s3parts)
       THEN ParsedOk(s3parts[1], s3parts[2])
       ELSE IF Head(url) \in {"http://", "https://"} /\ TwoParts(httpparts)
       THEN ParsedOk(httpparts[1], httpparts[2])
       ELSE ParseErr

UrlCalls == {[fn |-> "parse_s3_url", url |-> u] : u \in Urls}

\* Calls of apply_noise_reduction on mono buffers, at rates where
\* release_samples is 0, 1, 2 and 2205.
MaxGateFrames == 4
GateRates == {10, 20, 40, 44100}
GateSampleVals == {0, 2, 600}

GateCalls ==
    {[fn |-> "apply_noise_reduction", buffer |-> <<ch1>>, rate |-> r] :
        ch1 \in SeqsUpTo(GateSampleVals, MaxGateFrames), r \in GateRates}

\* ------------------------------------------------------------ append_samples
\* A decoded packet is its sample format and one plane of raw samples per
\* channel of the packet; the planes of a packet have the same length.
MaxPacketFrames == 1
Formats == {"F32", "S16", "S32", "U8", "S24"}

RawVals(format) ==
    CASE format = "F32" -> {0, 500}
      [] format = "S16" -> {0, 16384}
      [] format = "S32" -> {0, 1073741824}
      [] format = "U8"  -> {128, 192}
      [] OTHER          -> {0, 4194304}

\* s as f32 / 32768.0, s as f32 / 2147483648.0, (s as f32 - 128.0) / 128.0,
\* in Unit steps; an F32 plane is copied.
ToF32(format, s) ==
    CASE format = "F32" -> s
      [] format = "S16" -> (s * Unit) \div Full16
      [] format = "S32" -> ((s \div 2097152) * Unit) \div 1024
      [] OTHER          -> ((s - 128) * Unit) \div 128

ConvertPlane(format, plane) == [i \in DOMAIN plane |-> ToF32(format, plane[i])]

Packets ==
    UNION {{[format |-> f, planes |-> pl] :
              pl \in UNION {[1..c -> [1..n -> RawVals(f)]] :
                               c \in 1..2, n \in 1..MaxPacketFrames}} :
           f \in Formats}

\* The buffer of read_audio_file between two packets: AudioBuffer::new gives
\* it empty channels, and packets with all of its channels grew them together.
AppendBuffers ==
    UNION {[1..c -> [1..n -> {0, 500}]] : c \in 1..2, n \in 0..1}

Min(a, b) == IF a < b THEN a ELSE b

Supported(format) == format \in {"F32", "S16", "S32", "U8"}

\* for ch in 0..buffer.channels.min(buf.spec().channels.count())
ExtendedChannels(b, packet) == Min(Len(b), Len(packet.planes))

append_samples(b, packet) ==
    IF ~Supported(packet.format)
    THEN [ok |-> FALSE, buffer |-> b]
    ELSE [ok |-> TRUE,
          buffer |-> [c \in DOMAIN b |->
                        IF c <= ExtendedChannels(b, packet)
                        THEN b[c] \o ConvertPlane(packet.format, packet.planes[c])
                        ELSE b[c]]]

AppendCalls ==
    {[fn |-> "append_samples", buffer |-> b, packet |-> pk] :
        b \in AppendBuffers, pk \in Packets}

\* -------------------------------------------------------------- generate_key
\* SystemTime::now() as milliseconds since the epoch, read by the job that
\* generates the key; two jobs may read the same millisecond.
MaxMillis == 1
Millis == 0..MaxMillis
TrackIds == {"t1", "t2"}
\* The prefix and suffix the handlers pass.
KeyKinds == {<<"reports", "analysis.json">>, <<"fixed", "fixed.wav">>,
             <<"masters", "master.mp3">>}

\* format!("{}/{}/{}-{}", prefix, track_id, timestamp, suffix): the key is
\* its four fields.
generate_key(prefix, track_id, suffix, now) == <<prefix, track_id, now, suffix>>

Artifacts(job) ==
    {[job |-> job, prefix |-> k[1], suffix |-> k[2], track_id |-> t, now |-> ms] :
        k \in KeyKinds, t \in TrackIds, ms \in Millis}

\* Two artifacts, one of each of two jobs.
KeyCalls ==
    {[fn |-> "generate_key", first |-> a, second |-> b] :
        a \in Artifacts("j1"), b \in Artifacts("j2")}

KeyOf(a) == generate_key(a.prefix, a.track_id, a.suffix, a.now)

\* ------------------------------------------------------ calls of the functions
CallInit ==
    /\ InitDispatcher({}, "dsp")
    /\ LimiterIdle
    /\ FixIdle
    /\ call \in PeakCalls \cup WavCalls \cup TrimCalls \cup ClipCalls \cup UrlCalls
                 \cup GateCalls \cup AppendCalls \cup KeyCalls
    /\ ret = [done |-> FALSE]

CalculateSamplePeak ==
    /\ call.fn = "calculate_sample_peak"
    /\ ~ret.done
    /\ ret' = [done |-> TRUE, val |-> calculate_sample_peak(call.buffer)]
    /\ UNCHANGED <<call, dispVars, limVars, fixVars>>

WriteWav ==
    /\ call.fn = "write_wav_file"
    /\ ~ret.done
    /\ ret' = [done |-> TRUE, val |-> write_wav_file(call.buffer, call.bit_depth)]
    /\ UNCHANGED <<call, dispVars, limVars, fixVars>>

\* The file just written is read back.
ReadWav ==
    /\ call.fn = "write_wav_file"
    /\ ret.done
    /\ ret.val.ok
    /\ call' = [fn |-> "read_wav_file", file |-> ret.val, written |-> call.buffer]
    /\ ret' = [done |-> TRUE, val |-> read_wav_file(ret.val)]
    /\ UNCHANGED <<dispVars, limVars, fixVars>>

SilenceTrim ==
    /\ call.fn = "apply_silence_trim"
    /\ ~ret.done
    /\ ret' = [done |-> TRUE, val |-> apply_silence_trim(call.buffer, call.rate)]
    /\ UNCHANGED <<call, dispVars, limVars, fixVars>>

ClipRepair ==
    /\ call.fn = "apply_clip_repair"
    /\ ~ret.done
    /\ ret' = [done |-> TRUE, val |-> apply_clip_repair(call.buffer)]
    /\ UNCHANGED <<call, dispVars, limVars, fixVars>>

ParseS3Url ==
    /\ call.fn = "parse_s3_url"
    /\ ~ret.done
    /\ ret' = [done |-> TRUE, val |-> parse_s3_url(call.url)]
    /\ UNCHANGED <<call, dispVars, limVars, fixVars>>

NoiseReduction ==
    /\ call.fn = "apply_noise_reduction"
    /\ ~ret.done
    /\ ret' = [done |-> TRUE, val |-> apply_noise_reduction(call.buffer, call.rate)]
    /\ UNCHANGED <<call, dispVars, limVars, fixVars>>

AppendSamples ==
    /\ call.fn = "append_samples"
    /\ ~ret.done
    /\ ret' = [done |-> TRUE, val |-> append_samples(call.buffer, call.packet)]
    /\ UNCHANGED <<call, dispVars, limVars, fixVars>>

GenerateKeys ==
    /\ call.fn = "generate_key"
    /\ ~ret.done
    /\ ret' = [done |-> TRUE, val |-> <<KeyOf(call.first), KeyOf(call.second)>>]
    /\ UNCHANGED <<call, dispVars, limVars, fixVars>>

CallNext ==
    \/ CalculateSamplePeak
    \/ GenerateKeys
    \/ AppendSamples
    \/ NoiseReduction
    \/ ParseS3Url
    \/ ClipRepair
    \/ SilenceTrim
    \/ WriteWav
    \/ ReadWav

CallSpec == CallInit /\ [][CallNext]_vars

\* ================================================================== claims
HandledKinds == {"analyze", "fix", "master", "codec-preview"}

Idx(w) == DOMAIN log[w]
\* Steps of the handler that returned Err.
FailedSteps(w) == {i \in Idx(w) : log[w][i].op # "failure" /\ log[w][i].out = "err"}
\* Failure webhook POSTs attempted by main.
FailurePosts(w) == {i \in Idx(w) : log[w][i].op = "failure"}
\* Completed-result webhook POSTs that were sent.
ResultPosts(w) == {i \in Idx(w) : log[w][i].op = "result" /\ log[w][i].out = "ok"}
\* Uploads that succeeded.
UploadsOk(w) == {log[w][i].arg : i \in {j \in Idx(w) :
                    log[w][j].op = "upload" /\ log[w][j].out = "ok"}}

\* C1: a per-job error (a step of a handler returning Err, or the failure
\* webhook POST itself failing) never ends the worker process: after a failed
\* step the loop is at the failure report, after the failure report (sent or
\* not) it is back at the queue pop, and the process has not exited.
C1_ErrorsNeverTerminate ==
    [][\A w \in Workers :
         (Len(log'[w]) = Len(log[w]) + 1 /\ Last(log'[w]).out = "err")
         => /\ exitCause'[w] = "none"
            /\ pc'[w] = IF Last(log'[w]).op = "failure" THEN "pop" ELSE "failing"]_vars

\* The failure webhook of a failed job has itself failed, and the worker is
\* back at the pop with a payload waiting.
C1_Witness ==
    \E w \in Workers :
        /\ pc[w] = "pop" /\ exitCause[w] = "none"
        /\ log[w] # << >> /\ Last(log[w]).op = "failure" /\ Last(log[w]).out = "err"
        /\ queue[QueueOf(wkind[w])] # << >>

\* The endpoint the claim names for each handled kind.
C2_Endpoint(kind) ==
    CASE kind = "analyze" -> "analysis"
      [] kind = "fix" -> "fix"
      [] kind = "master" -> "master"
      [] kind = "codec-preview" -> "codec-preview"

\* C2: when a step of an analyze, fix, master or codec-preview handler fails,
\* no further step of the job is run, and main attempts exactly one failure
\* webhook POST, on the endpoint of the job's kind (analysis, fix, master,
\* codec-preview); no failure POST is made for a job none of whose steps failed.
C2_OneFailureWebhook ==
    \A w \in Workers :
        cur[w].kind \in HandledKinds =>
            /\ FailurePosts(w) # {} => FailedSteps(w) # {}
            /\ \A i \in FailedSteps(w) :
                /\ \A j \in Idx(w) : j > i => log[w][j].op = "failure"
                /\ pc[w] \in {"failing", "pop"}
                /\ pc[w] = "failing" => FailurePosts(w) = {}
                /\ pc[w] = "pop" =>
                     /\ FailurePosts(w) = {i + 1}
                     /\ Len(log[w]) = i + 1
                     /\ log[w][i + 1].arg = C2_Endpoint(cur[w].kind)

\* An analyze job failed at its upload and its failure was posted.
C2_Witness ==
    \E w \in Workers :
        /\ pc[w] = "pop" /\ cur[w].kind = "analyze"
        /\ \E i \in FailedSteps(w) : log[w][i].op = "upload"
        /\ FailurePosts(w) # {}

\* A parsed job has ended: its handler has returned and main is back at the pop.
Ended(w) == pc[w] = "pop" /\ cur[w].kind \in JobTypes

\* C3 as stated: every parsed job (analyze, fix, master, album-master,
\* export, codec-preview) that has ended has had its completed result or a
\* failure reported by webhook.
C3_EveryJobReported ==
    \A w \in Workers :
        Ended(w) => (ResultPosts(w) # {} \/ FailurePosts(w) # {})

C3_Ends ==
    \A w \in Workers :
        /\ (Ended(w) /\ cur[w].kind \in HandledKinds)
              => (ResultPosts(w) # {} \/ FailurePosts(w) # {})
        /\ (Ended(w) /\ cur[w].kind \in {"album-master", "export"})
              => log[w] = << >>
        /\ exitCause[w] = "panic"
              => (cur[w].kind = "master" /\ ResultPosts(w) = {} /\ FailurePosts(w) = {})

\* C3 amended: every started handler eventually returns or panics; an
\* analyze, fix, master or codec-preview job whose handler has returned has
\* had its completed result posted or a failure POST attempted; an
\* album-master or export job ends without any webhook; a master job whose
\* limiter panics ends the process with neither report.
C3_HandledJobsReported ==
    /\ []C3_Ends
    /\ \A w \in Workers : (pc[w] = "run") ~> (pc[w] \in {"pop", "exited"})

\* A master job has ended with its completed result posted.
C3_Witness ==
    \E w \in Workers :
        Ended(w) /\ cur[w].kind = "master" /\ ResultPosts(w) # {} /\ FailurePosts(w) = {}

\* C4: a payload that does not parse as a job is dropped: no step of any
\* handler is run for it (no download, upload or webhook POST of any kind, no
\* scratch directory), no handler run is counted for it, and the worker is
\* back at the queue pop.
C4_UnparsedDropped ==
    \A w \in Workers :
        cur[w].kind = "unparsed" =>
            /\ log[w] = << >>
            /\ scratch[w] = 0
            /\ runs[cur[w].id] = 0
            /\ pc[w] = "pop"

\* A payload was dropped and the worker is at the pop with another waiting.
C4_Witness ==
    \E w \in Workers :
        /\ cur[w].kind = "unparsed" /\ pc[w] = "pop"
        /\ queue[QueueOf(wkind[w])] # << >>

\* C5: once a handler has exited, with Ok or with Err at any step, the
\* scratch directory it acquired is gone: a worker never holds more than one
\* scratch directory and holds none while it is at the queue pop or reporting
\* a failure.
C5_ScratchReleased ==
    \A w \in Workers :
        /\ scratch[w] <= 1
        /\ pc[w] \in {"pop", "failing"} => scratch[w] = 0

\* A handler that had acquired its scratch directory failed at a later step.
C5_Witness ==
    \E w \in Workers :
        /\ pc[w] = "failing" /\ scratch[w] = 0
        /\ \E i \in Idx(w) : log[w][i].op = "tempdir" /\ log[w][i].out = "ok"
        /\ \E i \in FailedSteps(w) : log[w][i].op = "encode"

\* The latest job of the worker is over: nothing was popped yet, the payload
\* was dropped, the handler has no step, its last step succeeded, or the
\* failure webhook was attempted.
JobOver(w) ==
    \/ cur[w].kind \in {"none", "unparsed"}
    \/ StepsOf(cur[w]) = << >>
    \/ /\ Len(log[w]) = Len(StepsOf(cur[w]))
       /\ \A i \in Idx(w) : log[w][i].out = "ok"
    \/ /\ log[w] # << >>
       /\ Last(log[w]).op = "failure"

\* C6: a worker handles one job at a time in pop order: it takes a new
\* payload only when every step of its previous job, up to the final webhook
\* POST or the failure webhook attempt, has happened, and the payloads it
\* takes are in the order the producer pushed them.
C6_OneJobAtATimeFifo ==
    [][\A w \in Workers :
         (cur'[w] # cur[w] /\ cur'[w] # NoJob)
         => /\ pc[w] = "pop"
            /\ JobOver(w)
            /\ cur'[w].id > cur[w].id]_vars

\* The worker is in the middle of its second job.
C6_Witness ==
    \E w \in Workers :
        /\ cur[w].id = 2 /\ taken[1] = 1
        /\ pc[w] = "run" /\ Len(log[w]) > 2

\* Phase of a call in download -> decode -> kernel -> encode -> upload ->
\* result webhook; 0 for the calls outside these phases.
Phase(e) ==
    CASE e.op = "download" -> 1
      [] e.op = "decode" -> 2
      [] e.op = "kernel" -> 3
      [] e.op = "encode" -> 4
      [] e.op = "upload" -> 5
      [] e.op = "result" -> 6
      [] OTHER -> 0

PhasesInOrder(w) ==
    \A i, j \in Idx(w) :
        (i < j /\ Phase(log[w][i]) # 0 /\ Phase(log[w][j]) # 0)
        => Phase(log[w][i]) <= Phase(log[w][j])

\* Every upload of the handler has succeeded before the result webhook.
UploadSteps(job) ==
    {i \in DOMAIN StepsOf(job) : StepsOf(job)[i].op = "upload"}
ResultAfterUploads(w) ==
    \A r \in Idx(w) :
        log[w][r].op = "result"
        => \A u \in UploadSteps(cur[w]) :
              u < r /\ log[w][u].op = "upload" /\ log[w][u].out = "ok"

\* C7 as stated: in every analyze, fix, master and codec-preview job no
\* call of an earlier phase follows a call of a later phase, and the result
\* webhook follows the success of every upload.
C7_PhasesInOrderAllKinds ==
    \A w \in Workers :
        cur[w].kind \in HandledKinds => (PhasesInOrder(w) /\ ResultAfterUploads(w))

\* Order inside a codec-preview job: the master is downloaded and decoded,
\* then codec after codec is encoded, decoded back, measured and uploaded,
\* then the result is posted.
CodecRank(e) ==
    CASE e.op = "download" -> 1
      [] e.op = "decode" /\ e.pct = 0 -> 2
      [] e.op = "encode" -> 10 * e.pct + 1
      [] e.op = "decode" -> 10 * e.pct + 2
      [] e.op = "kernel" -> 10 * e.pct + 3
      [] e.op = "upload" -> 10 * e.pct + 4
      [] e.op = "result" -> 10 * (MaxCodecs + 2)
      [] OTHER -> 0

CodecOrder(w) ==
    \A i, j \in Idx(w) :
        (i < j /\ Phase(log[w][i]) # 0 /\ Phase(log[w][j]) # 0)
        => CodecRank(log[w][i]) <= CodecRank(log[w][j])

\* C7 amended: in every analyze, fix and master job no call of an earlier
\* phase (download, decode, kernel, encode, upload, result webhook) follows
\* a call of a later phase; a codec-preview job downloads and decodes the
\* master and then, codec after codec, encodes, decodes back, measures and
\* uploads; in all four kinds the result webhook is sent only after every
\* upload of the job has succeeded.
C7_PhasesInOrder ==
    \A w \in Workers :
        /\ cur[w].kind \in {"analyze", "fix", "master"} => PhasesInOrder(w)
        /\ cur[w].kind = "codec-preview" => CodecOrder(w)
        /\ cur[w].kind \in HandledKinds => ResultAfterUploads(w)

\* A codec-preview job over two codecs has posted its results after both
\* previews were uploaded.
C7_Witness ==
    \E w \in Workers :
        /\ cur[w].kind = "codec-preview" /\ cur[w].ncodecs = 2
        /\ ResultPosts(w) # {}
        /\ Cardinality({i \in Idx(w) :
              log[w][i].op = "upload" /\ log[w][i].out = "ok"}) = 2

\* C8: with two workers popping from the same queue, every payload is
\* returned by at most one BRPOP, starts at most one handler run, and is
\* never the job of two workers.
C8_ConsumedOnce ==
    /\ \A p \in PayloadIds : taken[p] <= 1 /\ runs[p] <= 1
    /\ \A v, w \in Workers : (v # w /\ cur[v].id # 0) => cur[v].id # cur[w].id

\* Both workers are in the middle of a job.
C8_Witness ==
    /\ \A w \in Workers : pc[w] = "run" /\ Len(log[w]) > 1
    /\ \A p \in PayloadIds : p <= Cardinality(Workers) => taken[p] = 1

MasterArtifacts == {"master_24bit.wav", "master_16bit.wav", "master.mp3", "qc.json"}

\* The kernel step of the job measured a final true peak above the QC gate.
QcFailed(w) ==
    \E i \in Idx(w) : log[w][i].arg = "apply_mastering" /\ log[w][i].qc = "fail"

\* C9: a master job whose final true peak is above -2.0 dBTP is not failed
\* for it: apply_mastering returns Ok, a failure webhook is sent only if some
\* later step returned Err, and when the handler returns Ok the two WAV
\* files, the MP3 and the QC report were uploaded and the completed master
\* webhook was posted with passesQc = false.
C9_QcFailureNotAnError ==
    \A w \in Workers :
        (cur[w].kind = "master" /\ QcFailed(w)) =>
            /\ \A i \in Idx(w) : log[w][i].arg = "apply_mastering" => log[w][i].out = "ok"
            /\ FailurePosts(w) # {} =>
                 \E i \in FailedSteps(w) : log[w][i].arg # "apply_mastering"
            /\ (pc[w] = "pop" /\ FailedSteps(w) = {}) =>
                 /\ UploadsOk(w) = MasterArtifacts
                 /\ FailurePosts(w) = {}
                 /\ Last(log[w]).op = "result" /\ Last(log[w]).arg = "master"
                 /\ Last(log[w]).out = "ok" /\ Last(log[w]).qc = "fail"

\* A master job that failed QC has ended with its completed webhook posted.
C9_Witness ==
    \E w \in Workers :
        /\ pc[w] = "pop" /\ cur[w].kind = "master" /\ QcFailed(w)
        /\ ResultPosts(w) # {} /\ UploadsOk(w) = MasterArtifacts

\* C10: when apply_limiter has returned on a non-silent buffer, whatever the
\* make-up gain, no sample of the output is above the ceiling 10^(-2/20).
C10_OutputUnderCeiling ==
    (lpc = "done" /\ NonSilent(lcfg.input)) =>
        \A c \in DOMAIN buffer : \A k \in DOMAIN buffer[c] :
            Abs(buffer[c][k]) <= CeilingLinear

\* C11: for every module run by apply_fixes, a FixChange is appended only when
\* the buffer after the module differs from the buffer before it.
C11_ReportedOnlyWhenModified ==
    \A k \in DOMAIN ftrace :
        ftrace[k].reported => ftrace[k].after # ftrace[k].before

\* s is a subsequence of t: t with some entries left out, order kept.
RECURSIVE IsSubseq(_, _)
IsSubseq(s, t) ==
    IF s = << >> THEN TRUE
    ELSE IF t = << >> THEN FALSE
    ELSE IF Head(s) = Head(t) THEN IsSubseq(Tail(s), Tail(t))
    ELSE IsSubseq(s, Tail(t))

IsKnown(name) == name \in ModuleNames
DidReport(e) == e.reported

\* The names of a sequence of module runs.
NamesOf(runSeq) == [k \in DOMAIN runSeq |-> runSeq[k].module]

\* C12: the modules run in the order requested, each on the buffer left by the
\* previous one; the change list names a subsequence of the request in the
\* same order; an unknown name leaves the buffer unchanged, adds no change and
\* does not stop the modules after it from running.
C12_ModulesInOrder ==
    /\ NamesOf(ftrace) = SelectSeq(SubSeq(fcfg.modules, 1, mi), IsKnown)
    /\ \A k \in DOMAIN ftrace :
          ftrace[k].before = IF k = 1 THEN fcfg.input ELSE ftrace[k - 1].after
    /\ fbuf = IF ftrace = << >> THEN fcfg.input ELSE ftrace[Len(ftrace)].after
    /\ changes = NamesOf(SelectSeq(ftrace, DidReport))
    /\ IsSubseq(changes, fcfg.modules)
    /\ fpc = "done" => mi = Len(fcfg.modules)

\* A request with an unknown name first has returned, and the module after
\* it has run and reported its change.
C12_Witness ==
    /\ fpc = "done"
    /\ Len(fcfg.modules) = 2
    /\ ~IsKnown(fcfg.modules[1])
    /\ changes = <<fcfg.modules[2]>>
    /\ ftrace[1].after # fcfg.input

\* C20: when normalize is applied twice in a row, the second application
\* computes a gain within 1% of unity, leaves every sample unchanged and
\* reports no change.
C20_NormalizeIdempotent ==
    \A k \in DOMAIN ftrace :
        (k > 1 /\ ftrace[k].module = "normalize" /\ ftrace[k - 1].module = "normalize")
            => /\ ~TooQuiet(ftrace[k].before) => IsUnity(NormalizeGain(ftrace[k].before))
               /\ ftrace[k].after = ftrace[k].before
               /\ ~ftrace[k].reported

\* Normalize ran twice in a row; the first run changed the buffer.
C20_Witness ==
    /\ Len(ftrace) = 2
    /\ ftrace[1].module = "normalize" /\ ftrace[1].reported
    /\ ftrace[1].after # ftrace[1].before
    /\ ftrace[2].module = "normalize"

\* C13: once startup has succeeded and the main loop has been entered, no
\* later event makes the worker process exit.
C13_NoExitInLoop == \A w \in Workers : pc[w] # "exited"

\* The operation a log entry is an attempt of: the call, what it is applied
\* to and, for a progress report, its value (for a codec step, its codec).
OpOf(e) == <<e.op, e.arg, e.pct>>

\* C14: within one job no operation (download, upload, encoder run, webhook
\* POST for a given progress value, result or failure) is attempted more than
\* once, whether or not it failed.
C14_NoRetries ==
    \A w \in Workers :
        \A i, j \in DOMAIN log[w] : i < j => OpOf(log[w][i]) # OpOf(log[w][j])

\* A job whose upload failed and whose failure webhook failed too has been
\* left behind: the loop is back at the queue.
C14_Witness ==
    \E w \in Workers :
        /\ pc[w] = "pop"
        /\ \E i \in DOMAIN log[w] : log[w][i].op = "upload" /\ log[w][i].out = "err"
        /\ Last(log[w]).op = "failure" /\ Last(log[w]).out = "err"

\* C15: when a job ends with a decode or encode failure, no artifact the job
\* produced remains in the object store. Neither worker ever deletes an
\* object, so what the job has uploaded is what remains.
C15_FailedJobLeavesNothing ==
    \A w \in Workers :
        (\E i \in FailedSteps(w) : log[w][i].op \in {"decode", "encode"})
            => UploadsOk(w) = {}

IsPushed(e) == e.op = "upload" /\ e.arg = "preview" /\ e.out = "ok"

\* The `results` vector of process_codec_preview, as the positions (1-based)
\* in the request of the codecs it holds: a result is pushed when
\* process_single_codec returns Ok, which is when its last call, the upload,
\* has succeeded.
Results(w) ==
    LET pushed == SelectSeq(log[w], IsPushed)
    IN [k \in DOMAIN pushed |-> pushed[k].pct]

\* What process_single_codec does to a codec before it returns a result.
PerCodecCalls ==
    {<<"encode", "preview">>, <<"decode", "preview">>, <<"decode", "decoded.wav">>,
     <<"kernel", "calculate_true_peak">>, <<"kernel", "calculate_artifact_score">>,
     <<"upload", "preview">>}

\* C16: a codec-preview job that reports its results reports exactly one per
\* requested codec, in the order of the request, and only after every
\* requested codec was encoded, decoded, measured and uploaded successfully.
C16_OneResultPerCodec ==
    \A w \in Workers :
        (cur[w].kind = "codec-preview"
           /\ \E r \in Idx(w) : log[w][r].op = "result")
            => /\ Results(w) = [i \in 1..cur[w].ncodecs |-> i]
               /\ \A i \in 1..cur[w].ncodecs : \A c \in PerCodecCalls :
                    \E k \in Idx(w) :
                        /\ log[w][k].op = c[1] /\ log[w][k].arg = c[2]
                        /\ log[w][k].pct = i /\ log[w][k].out = "ok"
                        /\ \A r \in Idx(w) : log[w][r].op = "result" => k < r

\* A codec-preview job with two codecs has reported its results.
C16_Witness ==
    \E w \in Workers :
        /\ cur[w].kind = "codec-preview" /\ cur[w].ncodecs = 2
        /\ ResultPosts(w) # {}
        /\ Results(w) = <<1, 2>>

\* C17: for every buffer whose samples satisfy |x| <= 1, the sample peak
\* reported lies in [-96, 0] dBFS, and it is -96 when every sample is zero.
C17_SamplePeakInRange ==
    (call.fn = "calculate_sample_peak" /\ ret.done)
        => /\ ret.val >= -96
           /\ ret.val <= 0
           /\ MaxSample(call.buffer) = 0 => ret.val = -96

\* The factor the claim names for a bit depth.
ScaleOf(bits) == CASE bits = 16 -> I16Max [] bits = 24 -> I24Max [] bits = 32 -> I32Max

\* C19: for every sample x, write_wav_file writes round(clamp(x, -1, 1) * M),
\* M = 32767, 8388607, 2147483647 at 16, 24, 32 bit, channels interleaved
\* frame by frame; any other bit depth makes the write fail.
C19_WritesRounded ==
    (call.fn = "write_wav_file" /\ ret.done)
        => IF call.bit_depth \in {16, 24, 32}
           THEN /\ ret.val.ok
                /\ Len(ret.val.data) = FrameCount(call.buffer) * Len(call.buffer)
                /\ \A c \in DOMAIN call.buffer : \A i \in DOMAIN call.buffer[c] :
                      ret.val.data[(i - 1) * Len(call.buffer) + c]
                          = RoundScale(Clamp(call.buffer[c][i]), ScaleOf(call.bit_depth))
           ELSE ~ret.val.ok

\* Number of samples of a buffer.
RECURSIVE SampleCount(_)
SampleCount(b) == IF b = << >> THEN 0 ELSE Len(Head(b)) + SampleCount(Tail(b))

\* The sum over all samples of the squared difference of two buffers of the
\* same shape.
RECURSIVE SumSqChan(_, _)
SumSqChan(x, y) ==
    IF x = << >> THEN 0
    ELSE (Head(x) - Head(y)) * (Head(x) - Head(y)) + SumSqChan(Tail(x), Tail(y))
RECURSIVE SumSq(_, _)
SumSq(a, b) ==
    IF a = << >> THEN 0 ELSE SumSqChan(Head(a), Head(b)) + SumSq(Tail(a), Tail(b))

\* 1 / 2^(bits - 1) in sample units, as a fraction num / den.
LsbOf(bits) ==
    CASE bits = 16 -> [num |-> WavUnit \div Full16, den |-> 1]
      [] bits = 24 -> [num |-> 1, den |-> 1]
      [] bits = 32 -> [num |-> 1, den |-> (I32Max \div WavUnit) + 1]

InUnitRange(b) == \A c \in DOMAIN b : \A i \in DOMAIN b[c] : Abs(b[c][i]) <= WavUnit

\* C18: for every buffer with samples in [-1, 1] and every supported bit
\* depth, writing the buffer and reading it back gives a buffer with the same
\* channel count and frame count whose RMS difference from the original is
\* at most 1 / 2^(bit_depth - 1).
C18_RoundTripWithinLsb ==
    (call.fn = "read_wav_file" /\ ret.done /\ InUnitRange(call.written))
        => /\ Len(ret.val) = Len(call.written)
           /\ \A c \in DOMAIN ret.val : Len(ret.val[c]) = Len(call.written[c])
           /\ SumSq(call.written, ret.val)
                  * LsbOf(call.file.bits).den * LsbOf(call.file.bits).den
                <= SampleCount(call.written)
                  * LsbOf(call.file.bits).num * LsbOf(call.file.bits).num

\* floor(0.1 * rate): the frames in 100 ms.
FramesIn100ms(rate) == rate \div 10

\* Silent frames before the first audible frame of b, and after its last.
SilentBefore(b) == SetMin(Audible(b))
SilentAfter(b) == FrameCount(b) - 1 - SetMax(Audible(b))

\* C21: when the input has more than 100 ms of silence before its first
\* audible frame, silence_trim leaves floor(0.1 * rate) +- 1 silent frames
\* before it, and likewise after its last audible frame; no audible frame is
\* removed and all channels keep equal length.
C21_TrimKeeps100ms ==
    (call.fn = "apply_silence_trim" /\ ret.done)
        => LET in == call.buffer
               out == ret.val.buf
               m == FramesIn100ms(call.rate)
           IN /\ Cardinality(Audible(out)) = Cardinality(Audible(in))
              /\ \A c \in DOMAIN out : Len(out[c]) = FrameCount(out)
              /\ (Audible(in) # {} /\ Audible(out) # {})
                    => /\ SilentBefore(in) * 10 > call.rate
                            => SilentBefore(out) \in (m - 1)..(m + 1)
                       /\ SilentAfter(in) * 10 > call.rate
                            => SilentAfter(out) \in (m - 1)..(m + 1)

\* The maximal clipped runs [s, e) of a channel, indices counted from 0.
ClippedRuns(chan) ==
    {r \in (0..Len(chan)) \X (0..Len(chan)) :
        /\ r[1] < r[2]
        /\ \A k \in r[1]..(r[2] - 1) : Clipped(chan[k + 1])
        /\ r[1] = 0 \/ ~Clipped(chan[r[1]])
        /\ r[2] = Len(chan) \/ ~Clipped(chan[r[2] + 1])}

\* A run that touches neither end of the channel.
Inside(r, chan) == r[1] >= 1 /\ r[2] <= Len(chan) - 1

ClipDone == call.fn = "apply_clip_repair" /\ ret.done

NoSlash(str) == \A k \in DOMAIN str : str[k] # "/"

\* What follows "s3://", or the "/" after the authority of an http(s) URL:
\* where the claim's two forms have b/k.
BucketAndKey(url) ==
    IF Head(url) = "s3://" THEN Tail(url)
    ELSE IF Len(url) >= 3 THEN SubSeq(url, 4, Len(url))
    ELSE << >>

\* C23: for every bucket name b without '/' and every non-empty key k,
\* parse_s3_url returns (b, k) for "s3://b/k" and for
\* "http(s)://host[:port]/b/k"; a URL of neither form, or with no key part,
\* is an error.
C23_ParsesBothForms ==
    (call.fn = "parse_s3_url" /\ ret.done)
        => LET parts == SplitN2(BucketAndKey(call.url))
               known == Head(call.url) \in {"s3://", "http://", "https://"}
           IN /\ (known /\ Len(parts) = 2 /\ parts[1] # << >> /\ parts[2] # << >>)
                    => ret.val = ParsedOk(parts[1], parts[2])
              /\ (~known \/ Len(parts) = 1 \/ (Len(parts) = 2 /\ parts[2] = << >>))
                    => ~ret.val.ok

\* A run that includes the first or the last sample of the channel.
AtBoundary(r, chan) == r[1] = 0 \/ r[2] = Len(chan)

\* C24: if a maximal clipped run includes the first or the last sample of
\* the channel, every sample of that run has the same value after
\* clip_repair as before.
C24_BoundaryRunsKept ==
    ClipDone =>
        \A c \in DOMAIN call.buffer : \A r \in ClippedRuns(call.buffer[c]) :
            AtBoundary(r, call.buffer[c])
                => \A k \in r[1]..(r[2] - 1) :
                      ret.val.buf[c][k + 1] = call.buffer[c][k + 1]

\* C25: clip_repair rewrites only the samples of clipped runs: every sample
\* that was below the threshold before the repair, in particular the sample
\* x[e] just after a run [s, e), keeps its value.
C25_UnclippedKept ==
    ClipDone =>
        \A c \in DOMAIN call.buffer : \A k \in DOMAIN call.buffer[c] :
            ~Clipped(call.buffer[c][k])
                => ret.val.buf[c][k] = call.buffer[c][k]

\* C26: the limiter goes through every sample of every channel and completes
\* without a fault for every buffer length, including buffers shorter than
\* the look-ahead, and every sample rate.
C26_LimiterCompletes == lpc # "panicked"

\* The locals of the gate when it has processed the first k samples of the
\* call's channel: sample k is met with this envelope and this gate.
GateAt(k) == GateChannel(SubSeq(call.buffer[1], 1, k), call.rate)

\* floor(0.05 * rate): the hold the claim names.
HoldSamples(rate) == rate \div 20

GateDone == call.fn = "apply_noise_reduction" /\ ret.done

\* C27: the gate is open at every sample whose envelope exceeds
\* 2 * noise_floor and at the floor(0.05 * rate) samples after it; a sample
\* processed while the gate is open keeps its value, and one processed while
\* it is closed is multiplied by a factor in [0.1, 1].
C27_GateHolds ==
    GateDone =>
        \A k \in DOMAIN call.buffer[1] :
            LET x == call.buffer[1][k]
                y == ret.val.buf[1][k]
            IN /\ AboveGate(GateAt(k).envelope) => GateAt(k).gate_open
               /\ \A t \in 1..(k - 1) :
                     (AboveGate(GateAt(t).envelope) /\ k - t <= HoldSamples(call.rate))
                         => GateAt(k).gate_open
               /\ GateAt(k).gate_open => y = x
               /\ ~GateAt(k).gate_open
                     => /\ Abs(y) <= Abs(x)
                        /\ Abs(y) >= Abs(x) \div 10
                        /\ x * y >= 0

\* The gate opened, was held open by the counter at a sample whose envelope
\* was not above the threshold, and closed at a later, non-zero sample.
C27_Witness ==
    /\ GateDone
    /\ \E k \in DOMAIN call.buffer[1] :
          /\ GateAt(k).gate_open /\ ~AboveGate(GateAt(k).envelope)
          /\ \E j \in (k + 1)..Len(call.buffer[1]) :
                ~GateAt(j).gate_open /\ call.buffer[1][j] # 0

EqualLengths(b) == \A c, d \in DOMAIN b : Len(b[c]) = Len(b[d])

\* C28: after every completed append of a decoded packet, whatever the
\* packet's channel count and sample format, all channel vectors of the
\* buffer have the same length.
C28_ChannelsEqualLength ==
    (call.fn = "append_samples" /\ ret.done /\ ret.val.ok)
        => EqualLengths(ret.val.buffer)

\* C29: two artifacts uploaded by two jobs, also two jobs for the same track
\* running at the same time or back to back, never receive the same key.
C29_KeysUnique ==
    (call.fn = "generate_key" /\ ret.done) => ret.val[1] # ret.val[2]

\* Failure webhook POSTs that were sent.
FailuresSent(w) == {i \in FailurePosts(w) : log[w][i].out = "ok"}

\* C30: for every job run at most one terminal webhook is sent: a report
\* with status "completed" and a report with status "failed" are never both
\* POSTed for the same job run, whichever webhook POSTs fail.
C30_OneTerminalWebhook ==
    \A w \in Workers : ~(ResultPosts(w) # {} /\ FailuresSent(w) # {})

====
